---- MODULE Spec2Model ----
(***************************************************************************)
(* Model of the Retro Shorts Re-Uploader (src/main.py): the scheduling     *)
(* arithmetic of SchedulingDialog, the background workers                  *)
(* worker_fetch_shorts / worker_upload_videos, the task_queue they write   *)
(* and the process_queue poll loop that reads it.                          *)
(*                                                                         *)
(* The specifications share the definitions below:                         *)
(*   Spec       the GUI after construction, its three triggers, the        *)
(*              worker threads and the poll loop;                          *)
(*   SpecWorker one call of worker_upload_videos on an arbitrary job list  *)
(*              and plan, with the poll loop running beside it             *)
(*              (FairWorker: the same with fair scheduling);               *)
(*   FairQueue  a fetch thread and an upload thread running at once, with  *)
(*              the poll loop, under fair scheduling;                      *)
(*   SpecTwoBatches  two re-upload batches running at once;                *)
(*   SpecYotuube     one call of the worker_upload_videos of               *)
(*              src/yotuubeuploader.py;                                    *)
(*   SpecLocalFlow   one click on UPLOAD FROM PC with its metadata dialog; *)
(*   SpecCalls  one call of upload_video, download_video, a notification   *)
(*              function or PresetManager.load on arbitrary arguments;     *)
(*   SpecSched  SchedulingDialog.on_ok applied to arbitrary inputs and the *)
(*              slot arithmetic of the worker applied to its result.       *)
(***************************************************************************)
EXTENDS Integers, Sequences, FiniteSets, TLC

\* ------------------------------------------------------------------ bounds
MaxJobs == 2
MaxSelect == 1
MaxBatches == 2
MaxQueue == 3
MaxWorkers == 2
MaxSlots == 3
MaxDay == 6
MaxTags == 3
MaxFiles == 2
MaxEdits == 2

\* ------------------------------------------------------- time and calendar
\* A naive datetime.datetime is a record of its fields; `day` counts days from
\* Monday 2024-01-01 (day 6 is Sunday 2024-01-07), so month and year carry
\* is what timedelta(days=..) does on the day count.
WeekDays == <<"Monday", "Tuesday", "Wednesday", "Thursday", "Friday", "Saturday", "Sunday">>

days_map(name) == (CHOOSE k \in 1..7 : WeekDays[k] = name) - 1

weekday(dt) == dt.day % 7

Hours == {0, 9, 10, 23}
Minutes == {0, 30, 59}
Seconds == {0, 30}
Micros == {0, 1}
Intervals == {0, 7}

DateTime(d, h, m, s, us) == [day |-> d, hour |-> h, minute |-> m, second |-> s, microsecond |-> us]

\* datetime + timedelta(days=n)
AddDays(dt, n) == [dt EXCEPT !.day = @ + n]

\* lexicographic order of two (hour, minute, second, microsecond) values
TimeGT(a, b) ==
    \/ a.hour > b.hour
    \/ a.hour = b.hour /\ a.minute > b.minute
    \/ a.hour = b.hour /\ a.minute = b.minute /\ a.second > b.second
    \/ a.hour = b.hour /\ a.minute = b.minute /\ a.second = b.second
       /\ a.microsecond > b.microsecond

DtGE(a, b) ==
    \/ a.day > b.day
    \/ a.day = b.day /\ ~TimeGT(b, a)

\* datetime.time(hour, minute)
TimeOf(h, m) == [hour |-> h, minute |-> m, second |-> 0, microsecond |-> 0]

Presets == [start_day : {WeekDays[k] : k \in 1..7}, hour : Hours, minute : Minutes,
            interval_days : Intervals]

Nows == {DateTime(d, h, m, s, us) : d \in 0..MaxDay, h \in Hours, m \in Minutes,
                                    s \in Seconds, us \in Micros}

\* SchedulingDialog._calculate_start_datetime_from_preset, with the clock
\* reading datetime.datetime.now() passed in as `now`.
PassedToday_never(days_until_target, now, preset) == FALSE

PassedToday_at_or_after(days_until_target, now, preset) ==
    days_until_target = 0 /\ ~TimeGT(TimeOf(preset.hour, preset.minute), now)

PassedToday(days_until_target, now, preset) ==
    days_until_target = 0 /\ TimeGT(now, TimeOf(preset.hour, preset.minute))

_calculate_start_datetime_from_preset(preset, now) ==
    LET target_weekday == days_map(preset.start_day)
        days_until_target == (target_weekday - weekday(now) + 7) % 7
        first_schedule_date ==
            IF PassedToday(days_until_target, now, preset)
            THEN AddDays(AddDays(now, days_until_target), 7)
            ELSE AddDays(now, days_until_target)
    IN  [first_schedule_date EXCEPT !.hour = preset.hour, !.minute = preset.minute,
                                    !.second = 0, !.microsecond = 0]

\* SchedulingDialog.on_ok, manual tab: datetime.combine(date, time(hour, minute))
\* and timedelta(days=interval_days).
on_ok_manual(start_date, hour, minute, interval_days) ==
    [start_datetime |-> DateTime(start_date, hour, minute, 0, 0), interval |-> interval_days]

\* SchedulingDialog.on_ok, preset tab.
on_ok_preset(preset, now) ==
    [start_datetime |-> _calculate_start_datetime_from_preset(preset, now),
     interval |-> preset.interval_days]

\* worker_upload_videos: start_datetime + (i * interval), i the loop index.
SlotIndex_compacted(i, uploads_so_far) == uploads_so_far

SlotIndex(i, uploads_so_far) == i

schedule_datetime_accumulating(schedule_plan, i) ==
    AddDays(schedule_plan.start_datetime, ((i * (i + 1)) \div 2) * schedule_plan.interval)

schedule_datetime(schedule_plan, i) ==
    AddDays(schedule_plan.start_datetime, i * schedule_plan.interval)

\* schedule_datetime.isoformat() + "Z": the fields of the naive datetime,
\* tagged with the literal suffix.
schedule_iso_string(dt) == [iso |-> dt, suffix |-> "Z"]

\* ------------------------------------------------------------------ inputs
VideoIds == {"v1", "v2"}
LocalPaths == {<<"pc", "a.mp4">>, <<"pc", "b.mp4">>}
RemoteIds == {"r1", "r2"}

\* Python's None for a path, for an event's data and for the schedule result.
None == <<>>

\* download_video: os.path.join(path, f"{video_id}.mp4") with path='.'
filepath(video_id) == <<".", video_id, "mp4">>

ReUploadJob(v, t) == [type |-> "re-upload", source_id |-> v, title |-> t]
LocalJob(p, t) == [type |-> "local", source_path |-> p, title |-> t]

\* The title a job carries when the user leaves the dialog's text as it is:
\* the title of the Short (ReUploadDialog), the file's base name
\* (LocalUploadDialog).
ShortTitle(video_id) == IF video_id = "v1" THEN "t1" ELSE "t2"

BaseName(path) == IF path[2] = "a.mp4" THEN "t1" ELSE "t2"

Jobs == {ReUploadJob(v, ShortTitle(v)) : v \in VideoIds}
            \cup {LocalJob(p, BaseName(p)) : p \in LocalPaths}

SeqsUpTo(S, n) == UNION {[1..k -> S] : k \in 0..n}

\* The plans the trigger flows hand to the worker: SchedulingDialog.on_ok on
\* the manual tab (Sunday 2024-01-07 09:00) and on the preset tab with the
\* built-in preset at Sunday 2024-01-07 10:00.
DefaultPreset == [start_day |-> "Sunday", hour |-> 9, minute |-> 0, interval_days |-> 7]

PlanChoices == {on_ok_manual(6, 9, 0, 0), on_ok_preset(DefaultPreset, DateTime(6, 9, 0, 30, 0))}

\* The plan the trigger flows of Spec hand over.
DialogPlans == {on_ok_preset(DefaultPreset, DateTime(6, 9, 0, 30, 0))}

\* ------------------------------------------------------------------- state
VARIABLES
    task_queue,      \* self.task_queue: events put by workers, not yet taken
    buttons,         \* state of the five buttons of the top bar
    tree,            \* rows of the video list (the id column)
    status_var,      \* self.status_var
    progress_var,    \* self.progress_var
    youtube_service, \* self.youtube_service
    shorts_data,     \* self.shorts_data
    files,           \* paths that exist on disk
    threads,         \* worker threads: slot -> the thread's locals and position
    sched,           \* a SchedulingDialog: clock reading, inputs, result, slots
    batches,         \* number of worker threads started so far
    enqueued,        \* history: every event put on task_queue, in put order
    handled,         \* history: every event a poll tick has handled, in order
    fn_call,         \* one call of a module-level function: arguments and outcome
    poll             \* the poll loop: whether a tick of process_queue is scheduled

vars == <<task_queue, buttons, tree, status_var, progress_var, youtube_service,
          shorts_data, files, threads, sched, batches, enqueued, handled, fn_call, poll>>

gui == <<buttons, tree, status_var, progress_var>>

Slots == 1..MaxWorkers

NORMAL == "normal"
DISABLED == "disabled"

\* A slot with no thread in it; also the locals a new thread starts from.
NoThread ==
    [kind |-> "none", pc |-> "none", upload_jobs |-> <<>>, schedule_plan |-> None,
     i |-> 0, video_path |-> None, successful_uploads |-> <<>>, skip |-> FALSE,
     \* history of the current batch, read by the properties only
     attempted |-> <<>>, fate |-> <<>>, calls |-> <<>>, removed |-> {},
     remove_failed |-> {}, downloaded |-> {}, complete_count |-> 0,
     put_after_complete |-> FALSE, notified |-> <<>>, progress |-> <<>>,
     service_at_start |-> "unread", download_calls |-> <<>>, origin |-> <<>>]

Event(type, data) == [type |-> type, data |-> data]

\* task_queue.put of the events `evs` by thread record t: the queue and the
\* thread's history of what it has put.
NoteCompleted(t, evs) ==
    [t EXCEPT !.put_after_complete = @ \/ (t.complete_count > 0 /\ evs # <<>>),
              !.complete_count = @ + Cardinality({k \in 1..Len(evs) : evs[k].type = "UPLOAD_COMPLETE"}),
              !.progress = @ \o SelectSeq(evs, LAMBDA e : e.type = "PROGRESS_UPDATE")]

CanPut(evs) == Len(task_queue) + Len(evs) <= MaxQueue

\* self.task_queue.put(..) of each event of `evs`, in order
put(evs) ==
    /\ task_queue' = task_queue \o evs
    /\ enqueued' = enqueued \o evs

\* self.task_queue.get_nowait() on a queue that is not empty: queue.Queue
\* hands out the oldest item and keeps the rest.
get_nowait_newest_first(q) == [item |-> q[Len(q)], rest |-> SubSeq(q, 1, Len(q) - 1)]

get_nowait(q) == [item |-> Head(q), rest |-> Tail(q)]

Active(t) == t.kind # "none" /\ t.pc \notin {"done", "crashed"}

FreeSlot(w) == threads[w].kind = "none"

\* YouTubeUploaderGUI.set_controls_state
set_controls_state(b, state) ==
    [b EXCEPT !.fetch_button = state, !.upload_button = state,
              !.select_all_button = state, !.deselect_all_button = state]

\* YouTubeUploaderGUI.__init__ and _create_top_bar
InitGui ==
    /\ task_queue = <<>>
    /\ buttons = [fetch_button |-> NORMAL, select_all_button |-> DISABLED,
                  deselect_all_button |-> DISABLED, local_upload_button |-> NORMAL,
                  upload_button |-> DISABLED]
    /\ tree = <<>>
    /\ status_var = <<"Ready">>
    /\ progress_var = <<0, 1>>
    /\ youtube_service = "None"
    /\ shorts_data = <<>>
    /\ files = LocalPaths
    /\ threads = [w \in Slots |-> NoThread]
    /\ batches = 0
    /\ enqueued = <<>>
    /\ handled = <<>>
    /\ poll = "scheduled"

\* ------------------------------------------------- external collaborators
\* What happens when a notification is to be sent: the alerts are switched
\* off or still carry the placeholder configuration, the message is sent, or
\* sending fails (SMTP or HTTP error, no network).
SendOutcomes == {"not_configured", "sent", "failed"}

\* send_error_email(subject, body): returns None in every case; the SMTP
\* exchange is inside try / except Exception.
send_error_email(subject, outcome) ==
    [raised |-> FALSE, sent |-> outcome = "sent"]

\* send_discord_notification(message): requests.post and raise_for_status
\* are inside try / except requests.exceptions.RequestException.
send_discord_notification_uncaught(message, outcome) ==
    [raised |-> outcome = "failed", sent |-> outcome = "sent"]

send_discord_notification(message, outcome) ==
    [raised |-> FALSE, sent |-> outcome = "sent"]

\* download_video(video_id).  a1 and a2 are what the two yt-dlp runs do:
\* a1 is "ok", "CalledProcessError" (with or without text on stderr) or
\* "error" (any other exception of subprocess.run, such as yt-dlp missing);
\* a2 is "ok" or "error".  `made` tells whether a run that reported success
\* left the file at filepath; `mail` is what sending the error email does.
\* The result is what the caller observes.
download_video(video_id, a1, a2, made, fs, mail) ==
    LET p == filepath(video_id)
        after == IF made THEN fs \cup {p} ELSE fs
        verify(ran) == [raised |-> FALSE, ret |-> IF p \in after THEN p ELSE None,
                        files |-> after, emails |-> 0, ran |-> ran]
    IN  CASE a1 = "ok" -> verify(<<"4K">>)
          [] a1 = "error" ->
                [raised |-> TRUE, ret |-> None, files |-> fs, emails |-> 0, ran |-> <<"4K">>]
          [] a1 = "CalledProcessError_empty_stderr" ->
                [raised |-> TRUE, ret |-> None, files |-> fs, emails |-> 0, ran |-> <<"4K">>]
          [] OTHER ->
                IF a2 = "ok" THEN verify(<<"4K", "safe">>)
                ELSE [raised |-> send_error_email("Video Download Failure", mail).raised,
                      ret |-> None, files |-> fs, emails |-> 1, ran |-> <<"4K", "safe">>]

DownloadResults(video_id, fs) ==
    {download_video(video_id, a1, a2, made, fs, mail) :
        a1 \in {"ok", "CalledProcessError", "CalledProcessError_empty_stderr", "error"},
        a2 \in {"ok", "error"}, made \in BOOLEAN, mail \in SendOutcomes}

\* upload_video: final_tags is the caller's list (None counts as the empty
\* list) with "YTUPLOADER" appended when no entry equals it.
final_tags(tags) ==
    IF \E k \in 1..Len(tags) : tags[k] = "YTUPLOADER" THEN tags
    ELSE Append(tags, "YTUPLOADER")

\* upload_video: body['status'].  publish_at is optional: None (which stands
\* for every value `if publish_at:` takes as false) or <<s>> for the string s;
\* a publishAt of None is a body without that key.
request_status_as_given(privacy_status, publish_at) ==
    [privacyStatus |-> privacy_status, publishAt |-> publish_at]

request_status(privacy_status, publish_at) ==
    IF publish_at # None
    THEN [privacyStatus |-> "private", publishAt |-> publish_at]
    ELSE [privacyStatus |-> privacy_status, publishAt |-> None]

request_body(tags, privacy_status, publish_at) ==
    [tags |-> final_tags(tags), status |-> request_status(privacy_status, publish_at)]

\* upload_video(youtube, file_path, .., tags, .., privacy_status, publish_at).
\* `answer` is what the platform does with the request: <<id>> for a response
\* carrying that id, "HttpError", or "error" for any other exception of the
\* call.  Without a service object, or without the file, the call raises
\* after the body was built and before any request.  `mail` is what sending
\* the error email does.
upload_video(youtube, file_path, tags, privacy_status, publish_at, answer, fs, mail) ==
    LET body == request_body(tags, privacy_status, publish_at)
    IN  IF youtube = "None" \/ file_path \notin fs \/ answer = <<"error">>
        THEN [raised |-> TRUE, ret |-> None, emails |-> 0, body |-> body]
        ELSE IF answer = <<"HttpError">>
        THEN [raised |-> send_error_email("Video Upload Failure", mail).raised,
              ret |-> None, emails |-> 1, body |-> body]
        ELSE [raised |-> FALSE, ret |-> answer, emails |-> 0, body |-> body]

\* the keyword arguments of the worker's upload_video call; privacy_status is
\* left at its default
worker_upload_args(schedule_iso) ==
    [tags |-> <<"shorts", "your-custom-tag">>, privacy_status |-> "private",
     publish_at |-> <<schedule_iso>>]

UploadAnswers == {<<r>> : r \in RemoteIds} \cup {<<"HttpError">>, <<"error">>}

\* what the worker's upload_video call can come back with
UploadResults(youtube, file_path, schedule_iso, fs) ==
    LET args == worker_upload_args(schedule_iso)
    IN  {upload_video(youtube, file_path, args.tags, args.privacy_status, args.publish_at,
                      answer, fs, mail) : answer \in UploadAnswers, mail \in SendOutcomes}

\* PresetManager.load.  The store is scheduling_presets.json: absent, not
\* readable (open raises PermissionError), bytes that are no text in the
\* locale's encoding, text that is no JSON (the empty file too), or JSON text
\* with the value it decodes to.  presets is a name-keyed mapping, written as
\* the set of its (name, preset) entries, or a JSON value of another shape.
NoJson == [shape |-> "none", entries |-> {}]

DefaultPresets ==
    [shape |-> "mapping",
     entries |-> {[name |-> "Weekly Sunday @ 9am",
                   preset |-> [start_day |-> "Sunday", hour |-> 9, minute |-> 0,
                               interval_days |-> 7]]}]

JsonValues ==
    {[shape |-> "mapping", entries |-> {}],
     [shape |-> "mapping",
      entries |-> {[name |-> "mine",
                    preset |-> [start_day |-> "Monday", hour |-> 10, minute |-> 30,
                                interval_days |-> 0]]}],
     [shape |-> "mapping_of_numbers", entries |-> {}],
     [shape |-> "list", entries |-> {}],
     [shape |-> "number", entries |-> {}]}

Stores ==
    {[file |-> f, value |-> NoJson] : f \in {"absent", "unreadable", "undecodable", "not_json"}}
        \cup {[file |-> "json", value |-> v] : v \in JsonValues}

load(store) ==
    CASE store.file \in {"absent", "not_json"} -> [raised |-> FALSE, presets |-> DefaultPresets]
      [] store.file \in {"unreadable", "undecodable"} -> [raised |-> TRUE, presets |-> NoJson]
      [] OTHER -> [raised |-> FALSE, presets |-> store.value]

\* ------------------------------------------------- worker_upload_videos
CurrentJob(t) == t.upload_jobs[t.i + 1]

total_videos(t) == Len(t.upload_jobs)

status_callback(msg) == Event("STATUS_UPDATE", msg)

\* except Exception (lines 1258-1260): the error is printed and control
\* passes to the finally block of the same job.
on_job_exception_uncaught(t, what) ==
    [t EXCEPT !.pc = "crashed", !.fate = Append(@, what)]

on_job_exception_no_finally(t, what) ==
    [t EXCEPT !.pc = "finally", !.fate = Append(@, what), !.video_path = None]

on_job_exception(t, what) ==
    [t EXCEPT !.pc = "finally", !.fate = Append(@, what)]

\* if not video_path: .. continue (lines 1239-1241)
has_source_always(video_path) == TRUE

has_source(video_path) == video_path # None

\* the guard of the finally block
cleanup_guard_any_type(job, video_path, fs) ==
    video_path # None /\ video_path \in fs

cleanup_guard(job, video_path, fs) ==
    job.type = "re-upload" /\ video_path # None /\ video_path \in fs

\* the events put after the loop
batch_end_events_if_any(successful_uploads) ==
    IF successful_uploads # <<>> THEN <<Event("UPLOAD_COMPLETE", None)>> ELSE <<>>

batch_end_events(successful_uploads) == <<Event("UPLOAD_COMPLETE", None)>>

\* if upload_id: successful_uploads.append({'title': .., 'id': upload_id})
record_outcome_whatever_id(successful_uploads, job_title, upload_id) ==
    Append(successful_uploads,
           [title |-> job_title, id |-> IF upload_id = None THEN "None" ELSE upload_id[1]])

record_outcome(successful_uploads, job_title, upload_id) ==
    IF upload_id # None
    THEN Append(successful_uploads, [title |-> job_title, id |-> upload_id[1]])
    ELSE successful_uploads

\* if successful_uploads: the summary is built and sent
summary_due_always(successful_uploads) == TRUE

summary_due(successful_uploads) == successful_uploads # <<>>

\* the body of the summary message: one line per successful upload
message_lines(successful_uploads) ==
    [k \in 1..Len(successful_uploads) |->
        [title |-> successful_uploads[k].title,
         url |-> <<"https://www.youtube.com/watch?v=", successful_uploads[k].id>>]]

\* lines 1276-1286: the summary notification, if one is due, and then
\* UPLOAD_COMPLETE; `outcome` is what sending the notification does.
after_loop(successful_uploads, outcome) ==
    LET due == summary_due(successful_uploads)
        n == IF due
             THEN send_discord_notification(message_lines(successful_uploads), outcome)
             ELSE [raised |-> FALSE, sent |-> FALSE]
    IN  [raised |-> n.raised, notified |-> due,
         events |-> IF n.raised THEN <<>> ELSE batch_end_events(successful_uploads)]

UploadBegin(w) ==
    LET t == threads[w]
        evs == <<Event("STATUS_UPDATE", <<"Starting upload", total_videos(t)>>),
                 Event("PROGRESS_UPDATE", <<0, 1>>)>>
    IN  /\ t.kind = "upload" /\ t.pc = "begin"
        /\ CanPut(evs)
        /\ put(evs)
        /\ threads' = [threads EXCEPT ![w] =
               [NoteCompleted(t, evs) EXCEPT !.pc = "loop",
                                             !.service_at_start = youtube_service]]
        /\ UNCHANGED <<gui, youtube_service, shorts_data, files, sched, batches, handled, fn_call, poll>>

\* for i, job in enumerate(upload_jobs): the head of one iteration up to the
\* call that blocks (the download), or up to the upload for a local job.
UploadLoop(w) ==
    LET t == threads[w]
    IN  /\ t.kind = "upload" /\ t.pc = "loop"
        /\ IF t.i < total_videos(t)
           THEN LET job == CurrentJob(t)
                    t1 == [t EXCEPT !.video_path = None, !.skip = FALSE,
                                    !.attempted = Append(@, t.i)]
                IN  IF job.type = "re-upload"
                    THEN LET evs == <<status_callback(<<"Downloading", job.title>>)>>
                         IN  /\ CanPut(evs)
                             /\ put(evs)
                             /\ threads' = [threads EXCEPT ![w] =
                                    [NoteCompleted(t1, evs) EXCEPT
                                        !.pc = "download",
                                        !.download_calls = Append(@, t.i)]]
                    ELSE LET evs == <<status_callback(<<"Preparing", job.title>>),
                                      status_callback(<<"Scheduling video", t.i + 1, total_videos(t)>>),
                                      status_callback(<<"Uploading video", t.i + 1, total_videos(t)>>)>>
                         IN  /\ CanPut(evs)
                             /\ put(evs)
                             /\ threads' = [threads EXCEPT ![w] =
                                    [NoteCompleted(t1, evs) EXCEPT !.pc = "upload",
                                                                   !.video_path = job.source_path]]
           ELSE /\ threads' = [threads EXCEPT ![w] = [t EXCEPT !.pc = "summary"]]
                /\ UNCHANGED <<task_queue, enqueued>>
        /\ UNCHANGED <<gui, youtube_service, shorts_data, files, sched, batches, handled, fn_call, poll>>

\* _process_reupload_job: download_video returns, and the code up to the
\* upload call runs.
UploadDownload(w) ==
    LET t == threads[w]
        job == CurrentJob(t)
    IN  /\ t.kind = "upload" /\ t.pc = "download"
        /\ \E r \in DownloadResults(job.source_id, files) :
            /\ files' = r.files
            /\ IF r.raised
               THEN /\ threads' = [threads EXCEPT ![w] = on_job_exception(t, "download_raised")]
                    /\ UNCHANGED <<task_queue, enqueued>>
               ELSE IF ~has_source(r.ret)
               THEN /\ threads' = [threads EXCEPT ![w] =
                            [t EXCEPT !.pc = "finally", !.skip = TRUE,
                                      !.fate = Append(@, "no_source")]]
                    /\ UNCHANGED <<task_queue, enqueued>>
               ELSE LET evs == <<status_callback(<<"Scheduling video", t.i + 1, total_videos(t)>>),
                                 status_callback(<<"Uploading video", t.i + 1, total_videos(t)>>)>>
                    IN  /\ CanPut(evs)
                        /\ put(evs)
                        /\ threads' = [threads EXCEPT ![w] =
                               [NoteCompleted(t, evs) EXCEPT !.pc = "upload", !.video_path = r.ret,
                                                             !.downloaded = @ \cup {r.ret}]]
        /\ UNCHANGED <<gui, youtube_service, shorts_data, sched, batches, handled, fn_call, poll>>

\* the upload_video call and the lines after it, up to the end of the try body
UploadUpload(w) ==
    LET t == threads[w]
        job == CurrentJob(t)
        at == schedule_datetime(t.schedule_plan, SlotIndex(t.i, Len(t.calls)))
        publish_at == schedule_iso_string(at)
        call == [i |-> t.i, file_path |-> t.video_path, title |-> job.title,
                 publish_at |-> publish_at]
    IN  /\ t.kind = "upload" /\ t.pc = "upload"
        /\ \E r \in UploadResults(youtube_service, t.video_path, publish_at, files) :
            LET t1 == [t EXCEPT !.calls = Append(@, call @@ [raised |-> r.raised, ret |-> r.ret,
                                                             body |-> r.body])]
            IN  threads' = [threads EXCEPT ![w] =
                    IF r.raised THEN on_job_exception(t1, "upload_raised")
                    ELSE [t1 EXCEPT !.pc = "finally",
                                    !.fate = Append(@, IF r.ret # None THEN "uploaded" ELSE "no_id"),
                                    !.successful_uploads = record_outcome(@, job.title, r.ret)]]
        /\ UNCHANGED <<task_queue, gui, youtube_service, shorts_data, files, sched, batches,
                     enqueued, handled, fn_call, poll>>

\* the finally block, then (unless the job was left by `continue`) the
\* progress update that ends the iteration.  os.remove either removes the
\* file or raises OSError, which is caught and printed.
UploadFinally(w) ==
    LET t == threads[w]
        job == CurrentJob(t)
        evs == IF t.skip THEN <<>>
               ELSE <<Event("PROGRESS_UPDATE", <<(t.i + 1) * 100, total_videos(t)>>)>>
        t1 == [NoteCompleted(t, evs) EXCEPT !.pc = "loop", !.i = @ + 1]
    IN  /\ t.kind = "upload" /\ t.pc = "finally"
        /\ CanPut(evs)
        /\ put(evs)
        /\ IF cleanup_guard(job, t.video_path, files)
           THEN \/ /\ files' = files \ {t.video_path}
                   /\ threads' = [threads EXCEPT ![w] =
                          [t1 EXCEPT !.removed = @ \cup {t.video_path}]]
                \/ /\ files' = files
                   /\ threads' = [threads EXCEPT ![w] =
                          [t1 EXCEPT !.remove_failed = @ \cup {t.video_path}]]
           ELSE /\ files' = files
                /\ threads' = [threads EXCEPT ![w] = t1]
        /\ UNCHANGED <<gui, youtube_service, shorts_data, sched, batches, handled, fn_call, poll>>

\* after the loop: the summary notification and UPLOAD_COMPLETE
UploadSummary(w) ==
    LET t == threads[w]
    IN  /\ t.kind = "upload" /\ t.pc = "summary"
        /\ \E outcome \in SendOutcomes :
            LET r == after_loop(t.successful_uploads, outcome)
                evs == r.events
                t1 == IF r.notified
                      THEN [t EXCEPT !.notified = Append(@,
                               [lines |-> message_lines(t.successful_uploads),
                                jobs_done |-> Len(t.attempted),
                                complete_put |-> t.complete_count])]
                      ELSE t
            IN  /\ CanPut(evs)
                /\ put(evs)
                /\ threads' = [threads EXCEPT ![w] =
                       [NoteCompleted(t1, evs) EXCEPT
                           !.pc = IF r.raised THEN "crashed" ELSE "done"]]
        /\ UNCHANGED <<gui, youtube_service, shorts_data, files, sched, batches, handled, fn_call, poll>>

worker_upload_videos(w) ==
    \/ UploadBegin(w)
    \/ UploadLoop(w)
    \/ UploadDownload(w)
    \/ UploadUpload(w)
    \/ UploadFinally(w)
    \/ UploadSummary(w)

\* ------------------------- src/yotuubeuploader.py: worker_upload_videos
\* The second program file has its own download_video, upload_video and
\* worker_upload_videos; its queue, its poll loop and its thread start are
\* those modelled above.
\* download_video there: one yt-dlp run inside try / except Exception; `a` is
\* what the run does, `made` whether a run that reported success left the
\* file, `mail` what sending the error email does.
yotuube_download_video(video_id, a, made, fs, mail) ==
    LET p == filepath(video_id)
        after == IF made THEN fs \cup {p} ELSE fs
    IN  IF a = "ok"
        THEN [raised |-> FALSE, ret |-> IF p \in after THEN p ELSE None, files |-> after,
              emails |-> 0]
        ELSE [raised |-> send_error_email("Video Download Failure", mail).raised,
              ret |-> None, files |-> fs, emails |-> 1]

\* upload_video there: the tags go into the body as they are; only HttpError
\* is caught.
yotuube_upload_video(youtube, file_path, answer, fs, mail) ==
    IF youtube = "None" \/ file_path \notin fs \/ answer = <<"error">>
    THEN [raised |-> TRUE, ret |-> None, emails |-> 0]
    ELSE IF answer = <<"HttpError">>
    THEN [raised |-> send_error_email("Video Upload Failure", mail).raised,
          ret |-> None, emails |-> 1]
    ELSE [raised |-> FALSE, ret |-> answer, emails |-> 0]

\* the loop body has no try statement: an exception ends the thread
YotuubeRaised(t, what) == [t EXCEPT !.pc = "crashed", !.fate = Append(@, what)]

YotuubeBegin(w) ==
    LET t == threads[w]
        evs == <<Event("STATUS_UPDATE", <<"Starting upload", total_videos(t)>>),
                 Event("PROGRESS_UPDATE", <<0, 1>>)>>
    IN  /\ t.kind = "yotuube_upload" /\ t.pc = "begin"
        /\ CanPut(evs)
        /\ put(evs)
        /\ threads' = [threads EXCEPT ![w] = [NoteCompleted(t, evs) EXCEPT !.pc = "loop"]]
        /\ UNCHANGED <<gui, youtube_service, shorts_data, files, sched, batches, handled, fn_call, poll>>

\* the head of one iteration up to the call that blocks, or, after the last
\* job, the UPLOAD_COMPLETE that ends the function
YotuubeLoop(w) ==
    LET t == threads[w]
    IN  /\ t.kind = "yotuube_upload" /\ t.pc = "loop"
        /\ IF t.i < total_videos(t)
           THEN LET job == CurrentJob(t)
                    t1 == [t EXCEPT !.video_path = None, !.attempted = Append(@, t.i)]
                    evs == IF job.type = "re-upload"
                           THEN <<Event("STATUS_UPDATE",
                                        <<"Downloading video", t.i + 1, total_videos(t), job.title>>)>>
                           ELSE <<Event("STATUS_UPDATE", <<"Scheduling video", t.i + 1, total_videos(t)>>),
                                  Event("STATUS_UPDATE", <<"Uploading video", t.i + 1, total_videos(t)>>)>>
                IN  /\ CanPut(evs)
                    /\ put(evs)
                    /\ threads' = [threads EXCEPT ![w] =
                           IF job.type = "re-upload"
                           THEN [NoteCompleted(t1, evs) EXCEPT !.pc = "download",
                                                               !.download_calls = Append(@, t.i)]
                           ELSE [NoteCompleted(t1, evs) EXCEPT !.pc = "upload",
                                                               !.video_path = job.source_path]]
           ELSE LET evs == <<Event("UPLOAD_COMPLETE", None)>>
                IN  /\ CanPut(evs)
                    /\ put(evs)
                    /\ threads' = [threads EXCEPT ![w] = [NoteCompleted(t, evs) EXCEPT !.pc = "done"]]
        /\ UNCHANGED <<gui, youtube_service, shorts_data, files, sched, batches, handled, fn_call, poll>>

\* download_video returns: `continue` without a source, else the lines up to
\* the upload call
YotuubeDownload(w) ==
    LET t == threads[w]
        job == CurrentJob(t)
    IN  /\ t.kind = "yotuube_upload" /\ t.pc = "download"
        /\ \E a \in {"ok", "error"}, made \in BOOLEAN, mail \in SendOutcomes :
            LET r == yotuube_download_video(job.source_id, a, made, files, mail)
            IN  /\ files' = r.files
                /\ IF r.raised
                   THEN /\ threads' = [threads EXCEPT ![w] = YotuubeRaised(t, "download_raised")]
                        /\ UNCHANGED <<task_queue, enqueued>>
                   ELSE IF r.ret = None
                   THEN /\ threads' = [threads EXCEPT ![w] =
                                [t EXCEPT !.pc = "loop", !.i = @ + 1,
                                          !.fate = Append(@, "no_source")]]
                        /\ UNCHANGED <<task_queue, enqueued>>
                   ELSE LET evs == <<Event("STATUS_UPDATE", <<"Scheduling video", t.i + 1, total_videos(t)>>),
                                     Event("STATUS_UPDATE", <<"Uploading video", t.i + 1, total_videos(t)>>)>>
                        IN  /\ CanPut(evs)
                            /\ put(evs)
                            /\ threads' = [threads EXCEPT ![w] =
                                   [NoteCompleted(t, evs) EXCEPT !.pc = "upload", !.video_path = r.ret,
                                                                 !.downloaded = @ \cup {r.ret}]]
        /\ UNCHANGED <<gui, youtube_service, shorts_data, sched, batches, handled, fn_call, poll>>

\* upload_video returns (its value is not used), the downloaded file is
\* removed and the progress is put; an exception of upload_video or of
\* os.remove ends the thread on the spot.
YotuubeUpload(w) ==
    LET t == threads[w]
        job == CurrentJob(t)
        evs == <<Event("PROGRESS_UPDATE", <<(t.i + 1) * 100, total_videos(t)>>)>>
    IN  /\ t.kind = "yotuube_upload" /\ t.pc = "upload"
        /\ \E answer \in UploadAnswers, mail \in SendOutcomes :
            LET r == yotuube_upload_video(youtube_service, t.video_path, answer, files, mail)
                t1 == [NoteCompleted(t, evs) EXCEPT
                          !.pc = "loop", !.i = @ + 1,
                          !.fate = Append(@, IF r.ret # None THEN "uploaded" ELSE "no_id")]
            IN  IF r.raised
                THEN /\ threads' = [threads EXCEPT ![w] = YotuubeRaised(t, "upload_raised")]
                     /\ UNCHANGED <<task_queue, enqueued, files>>
                ELSE IF job.type = "re-upload" /\ t.video_path \in files
                THEN \/ /\ CanPut(evs)
                        /\ put(evs)
                        /\ files' = files \ {t.video_path}
                        /\ threads' = [threads EXCEPT ![w] =
                               [t1 EXCEPT !.removed = @ \cup {t.video_path}]]
                     \/ /\ threads' = [threads EXCEPT ![w] =
                               [YotuubeRaised(t, "remove_raised") EXCEPT
                                   !.remove_failed = @ \cup {t.video_path}]]
                        /\ UNCHANGED <<task_queue, enqueued, files>>
                ELSE /\ CanPut(evs)
                     /\ put(evs)
                     /\ files' = files
                     /\ threads' = [threads EXCEPT ![w] = t1]
        /\ UNCHANGED <<gui, youtube_service, shorts_data, sched, batches, handled, fn_call, poll>>

yotuube_worker_upload_videos(w) ==
    \/ YotuubeBegin(w)
    \/ YotuubeLoop(w)
    \/ YotuubeDownload(w)
    \/ YotuubeUpload(w)

\* --------------------------------------------------- worker_fetch_shorts
\* What get_channel_shorts can return: the ids of the channel's Shorts in
\* playlist order ([] also after an HttpError).
ShortsLists == {l \in SeqsUpTo(VideoIds, MaxSelect) : \A a, b \in 1..Len(l) : l[a] = l[b] => a = b}

\* get_authenticated_service returns (service, title) or (None, None); the
\* worker stores it and puts its first event.  Reading token.pickle stands
\* before the try block (lines 87-89): a token file that cannot be read or
\* unpickled raises, and nothing in the worker catches it.
FetchAuth(w) ==
    LET t == threads[w]
    IN  /\ t.kind = "fetch" /\ t.pc = "auth"
        /\ \/ \E service \in {"None", "service"} :
                LET evs == IF service # "None"
                           THEN <<Event("STATUS_UPDATE", <<"Fetching video list from your channel...">>)>>
                           ELSE <<Event("FETCH_FAILED", None)>>
                IN  /\ CanPut(evs)
                    /\ youtube_service' = service
                    /\ put(evs)
                    /\ threads' = [threads EXCEPT ![w] =
                           [NoteCompleted(t, evs) EXCEPT
                               !.pc = IF service # "None" THEN "list" ELSE "done",
                               !.fate = Append(@, IF service # "None" THEN "authenticated"
                                                  ELSE "auth_failed")]]
           \/ /\ threads' = [threads EXCEPT ![w] =
                  [t EXCEPT !.pc = "crashed", !.fate = Append(@, "auth_raised")]]
              /\ UNCHANGED <<task_queue, enqueued, youtube_service>>
        /\ UNCHANGED <<gui, shorts_data, files, sched, batches, handled, fn_call, poll>>

\* get_channel_shorts returns a list, or raises an exception that is not an
\* HttpError, which nothing in the worker catches.
FetchList(w) ==
    LET t == threads[w]
    IN  /\ t.kind = "fetch" /\ t.pc = "list"
        /\ \/ \E shorts \in ShortsLists :
                LET evs == <<Event("FETCH_COMPLETE", shorts)>>
                IN  /\ CanPut(evs)
                    /\ shorts_data' = shorts
                    /\ put(evs)
                    /\ threads' = [threads EXCEPT ![w] =
                           [NoteCompleted(t, evs) EXCEPT !.pc = "done",
                                                         !.fate = Append(@, "listed")]]
           \/ /\ threads' = [threads EXCEPT ![w] =
                  [t EXCEPT !.pc = "crashed", !.fate = Append(@, "listing_raised")]]
              /\ UNCHANGED <<task_queue, enqueued, shorts_data>>
        /\ UNCHANGED <<gui, youtube_service, files, sched, batches, handled, fn_call, poll>>

worker_fetch_shorts(w) == FetchAuth(w) \/ FetchList(w)

\* the thread's target function has returned (or died): the thread is gone
thread_exit(w) ==
    /\ threads[w].pc \in {"done", "crashed"}
    /\ threads' = [threads EXCEPT ![w] = NoThread]
    /\ UNCHANGED <<task_queue, gui, youtube_service, shorts_data, files, sched, batches,
                     enqueued, handled, fn_call, poll>>

\* ------------------------------------------------------------ process_queue
\* finally: self.after(100, self.process_queue), whatever the try body did:
\* it found the queue empty, handled an event, or raised in a handler.
reschedule_unless_raised(outcome) ==
    IF outcome = "handler_raised" THEN "stopped" ELSE "scheduled"

reschedule(outcome) == "scheduled"

\* One poll tick: get_nowait takes the oldest event, if there is one, and the
\* branch for its type runs; the next tick is always scheduled.  The
\* FETCH_COMPLETE branch can raise while it fills the list (fromisoformat on
\* a publishedAt it cannot parse): the controls are enabled by then, the rows
\* before the bad one are inserted, the status is not set.
process_queue ==
    /\ poll = "scheduled"
    /\ IF task_queue = <<>>
       THEN /\ poll' = reschedule("empty")
            /\ UNCHANGED <<task_queue, gui, youtube_service, shorts_data, files, threads,
                           sched, batches, enqueued, handled, fn_call>>
       ELSE LET got == get_nowait(task_queue)
                message_type == got.item.type
                data == got.item.data
            IN  /\ task_queue' = got.rest
                /\ handled' = Append(handled, got.item)
                /\ CASE message_type = "FETCH_COMPLETE" ->
                           /\ buttons' = set_controls_state(buttons, NORMAL)
                           /\ UNCHANGED progress_var
                           /\ \/ /\ tree' = tree \o data
                                 /\ status_var' =
                                        IF data # <<>> THEN <<"Fetch complete", Len(data)>>
                                        ELSE <<"No Shorts found or an error occurred.">>
                                 /\ poll' = reschedule("handled")
                              \/ \E bad \in 1..Len(data) :
                                    /\ tree' = tree \o SubSeq(data, 1, bad - 1)
                                    /\ UNCHANGED status_var
                                    /\ poll' = reschedule("handler_raised")
                     [] message_type = "FETCH_FAILED" ->
                           /\ buttons' = set_controls_state(buttons, NORMAL)
                           /\ status_var' = <<"Authentication failed. Check log.">>
                           /\ poll' = reschedule("handled")
                           /\ UNCHANGED <<tree, progress_var>>
                     [] message_type = "UPLOAD_COMPLETE" ->
                           /\ buttons' = set_controls_state(buttons, NORMAL)
                           /\ status_var' = <<"All tasks complete. Ready.">>
                           /\ poll' = reschedule("handled")
                           /\ UNCHANGED <<tree, progress_var>>
                     [] message_type = "STATUS_UPDATE" ->
                           /\ status_var' = data
                           /\ poll' = reschedule("handled")
                           /\ UNCHANGED <<buttons, tree, progress_var>>
                     [] message_type = "PROGRESS_UPDATE" ->
                           /\ progress_var' = data
                           /\ poll' = reschedule("handled")
                           /\ UNCHANGED <<buttons, tree, status_var>>
                /\ UNCHANGED <<youtube_service, shorts_data, files, threads, sched, batches,
                               enqueued, fn_call>>

\* ----------------------------------------------------------- the triggers
\* threading.Thread(target=..).start(): the new thread takes the first slot
\* that holds no running thread.
NewSlot == CHOOSE w \in Slots : FreeSlot(w) /\ \A v \in Slots : FreeSlot(v) => w <= v

HasSlot == batches < MaxBatches /\ \E w \in Slots : FreeSlot(w)

StartThread(t) ==
    /\ threads' = [threads EXCEPT ![NewSlot] = t]
    /\ batches' = batches + 1

UploadThread(upload_jobs, schedule_plan) ==
    [NoThread EXCEPT !.kind = "upload", !.pc = "begin", !.upload_jobs = upload_jobs,
                     !.schedule_plan = schedule_plan]

\* FETCH SHORTS
start_fetch_thread ==
    /\ buttons.fetch_button = NORMAL
    /\ HasSlot
    /\ buttons' = set_controls_state(buttons, DISABLED)
    /\ tree' = <<>>
    /\ status_var' = <<"Authenticating and fetching videos...">>
    /\ StartThread([NoThread EXCEPT !.kind = "fetch", !.pc = "auth"])
    /\ UNCHANGED <<task_queue, progress_var, youtube_service, shorts_data, files, sched,
                   enqueued, handled, fn_call, poll>>

\* LocalUploadDialog.  A path is <<directory, file name>>; the title stands
\* for the pair (title, description), which the dialog stores, loads and
\* saves together.  file_metadata maps each path to its metadata, in the
\* order of file_paths (a dict keyed by path); the listbox shows one row per
\* path, holding the path's base name.
basename(path) == path[2]

\* _on_file_select: the entry is saved under current_path, then the row's
\* text is looked up among the base names of the paths, first match first,
\* and that path's metadata is loaded into the entry.
_on_file_select(d) ==
    LET saved == IF d.current_path # None
                 THEN [d.file_metadata EXCEPT ![d.current_path] = d.title_entry]
                 ELSE d.file_metadata
        selected_filename == basename(d.file_paths[d.selection])
        first == CHOOSE k \in 1..Len(d.file_paths) :
                    /\ basename(d.file_paths[k]) = selected_filename
                    /\ \A j \in 1..(k - 1) : basename(d.file_paths[j]) # selected_filename
    IN  [d EXCEPT !.file_metadata = saved, !.current_path = d.file_paths[first],
                  !.title_entry = saved[d.file_paths[first]]]

\* __init__ and _populate_listbox: the first row is selected and loaded
LocalUploadDialog(file_paths) ==
    _on_file_select(
        [file_paths |-> file_paths,
         file_metadata |-> [p \in {file_paths[k] : k \in 1..Len(file_paths)} |-> BaseName(p)],
         current_path |-> None, title_entry |-> "", selection |-> 1])

\* on_ok: the open entry is saved; result = list(self.file_metadata.values())
on_ok(d) ==
    LET e == _on_file_select(d)
    IN  [k \in 1..Len(e.file_paths) |-> e.file_metadata[e.file_paths[k]]]

\* What the user does in the dialog: a sequence of steps, each a click on row
\* `row` (0: no click, the selection stays) followed by typing `text` into
\* the title entry.
TypedTitles == {"n1", "n2"}

DialogSteps(n) == [row : 0..n, text : TypedTitles]

RECURSIVE use(_, _)
use(d, steps) ==
    IF steps = <<>> THEN d
    ELSE LET step == Head(steps)
             shown == IF step.row = 0 THEN d
                      ELSE _on_file_select([d EXCEPT !.selection = step.row])
         IN  use([shown EXCEPT !.title_entry = step.text], Tail(steps))

\* history: the title entered for each row, i.e. the text typed last while
\* the row was selected, or the title the dialog starts the row with
RECURSIVE EnteredAfter(_, _, _)
EnteredAfter(entered, selection, steps) ==
    IF steps = <<>> THEN entered
    ELSE LET step == Head(steps)
             row == IF step.row = 0 THEN selection ELSE step.row
         IN  EnteredAfter([entered EXCEPT ![row] = step.text], row, Tail(steps))

Entered(file_paths, steps) ==
    EnteredAfter([k \in 1..Len(file_paths) |-> BaseName(file_paths[k])], 1, steps)

\* UPLOAD FROM PC: the file dialog returns file_paths, LocalUploadDialog the
\* metadata of each file, SchedulingDialog the plan.  (A cancelled dialog
\* returns from the handler with nothing changed.)  `selections` are the
\* file lists the file dialog can return, max_edits the number of steps the
\* user can take in the metadata dialog, plans the plans the user can choose.
local_upload_flow(selections, max_edits, plans) ==
    /\ buttons.local_upload_button = NORMAL
    /\ HasSlot
    /\ \E file_paths \in selections, schedule_plan \in plans :
        \E steps \in SeqsUpTo(DialogSteps(Len(file_paths)), max_edits) :
            LET metadata_list == on_ok(use(LocalUploadDialog(file_paths), steps))
                upload_jobs == [k \in 1..Len(file_paths) |->
                                   LocalJob(file_paths[k], metadata_list[k])]
            IN  StartThread([UploadThread(upload_jobs, schedule_plan) EXCEPT
                                !.origin = <<[file_paths |-> file_paths,
                                              entered |-> Entered(file_paths, steps)]>>])
    /\ buttons' = set_controls_state(buttons, DISABLED)
    /\ UNCHANGED <<task_queue, tree, status_var, progress_var, youtube_service,
                   shorts_data, files, sched, enqueued, handled, fn_call, poll>>

FileSelections == {l \in SeqsUpTo(LocalPaths, MaxSelect) :
                      l # <<>> /\ \A a, b \in 1..Len(l) : l[a] = l[b] => a = b}

\* in Spec the user leaves the text of the metadata dialog as it is
start_local_upload_flow == local_upload_flow(FileSelections, 0, DialogPlans)

\* the rows of `selection` in tree order, as a sequence
RECURSIVE RowsIn(_, _)
RowsIn(rows, selection) ==
    IF rows = <<>> THEN <<>>
    ELSE LET rest == RowsIn(Tail(rows), {k - 1 : k \in selection \ {1}})
         IN  IF 1 \in selection THEN <<Head(rows)>> \o rest ELSE rest

\* SCHEDULE RE-UPLOADS: every selected row whose id is in shorts_data becomes
\* a job; ReUploadDialog returns the edited metadata, SchedulingDialog the plan.
start_upload_thread ==
    /\ buttons.upload_button = NORMAL
    /\ HasSlot
    /\ \E selected_items \in SUBSET (1..Len(tree)) :
        /\ selected_items # {}
        /\ Cardinality(selected_items) <= MaxSelect
        /\ LET ids == RowsIn(tree, selected_items)
               known == {shorts_data[k] : k \in 1..Len(shorts_data)}
               selected_shorts_to_upload == SelectSeq(ids, LAMBDA v : v \in known)
           IN  /\ selected_shorts_to_upload # <<>>
               /\ \E schedule_plan \in DialogPlans :
                   LET edited_metadata == [k \in 1..Len(selected_shorts_to_upload) |->
                           ShortTitle(selected_shorts_to_upload[k])]
                       upload_jobs == [k \in 1..Len(selected_shorts_to_upload) |->
                           ReUploadJob(selected_shorts_to_upload[k], edited_metadata[k])]
                   IN  StartThread(UploadThread(upload_jobs, schedule_plan))
    /\ buttons' = set_controls_state(buttons, DISABLED)
    /\ UNCHANGED <<task_queue, tree, status_var, progress_var, youtube_service,
                   shorts_data, files, sched, enqueued, handled, fn_call, poll>>

\* --------------------------------------------------------- specifications
NoDialog == [stage |-> "none"]

NoCall == [fn |-> "none"]

Init == InitGui /\ sched = NoDialog /\ fn_call = NoCall

Next ==
    \/ start_fetch_thread
    \/ start_local_upload_flow
    \/ start_upload_thread
    \/ \E w \in Slots : worker_fetch_shorts(w)
    \/ \E w \in Slots : worker_upload_videos(w)
    \/ \E w \in Slots : thread_exit(w)
    \/ process_queue

Spec == Init /\ [][Next]_vars

\* One call of worker_upload_videos(upload_jobs, schedule_plan), as a trigger
\* leaves the program when it starts the thread: controls disabled, any job
\* list (the empty one too), with or without an authenticated service.
InitWorker ==
    /\ task_queue = <<>>
    /\ buttons = set_controls_state(
                    [fetch_button |-> NORMAL, select_all_button |-> DISABLED,
                     deselect_all_button |-> DISABLED, local_upload_button |-> NORMAL,
                     upload_button |-> DISABLED], DISABLED)
    /\ tree = <<>>
    /\ status_var = <<"Ready">>
    /\ progress_var = <<0, 1>>
    /\ youtube_service \in {"None", "service"}
    /\ shorts_data = <<>>
    /\ files = LocalPaths
    /\ \E upload_jobs \in SeqsUpTo(Jobs, MaxJobs), schedule_plan \in PlanChoices :
        threads = [w \in Slots |-> IF w = 1 THEN UploadThread(upload_jobs, schedule_plan)
                                   ELSE NoThread]
    /\ sched = NoDialog
    /\ batches = 1
    /\ enqueued = <<>>
    /\ handled = <<>>
    /\ poll = "scheduled"
    /\ fn_call = NoCall

NextWorker ==
    \/ \E w \in Slots : worker_upload_videos(w)
    \/ \E w \in Slots : thread_exit(w)
    \/ process_queue

SpecWorker == InitWorker /\ [][NextWorker]_vars

\* The worker thread runs whenever it can, and Tk runs the poll tick that
\* self.after(100, self.process_queue) schedules.
\* (run here with a service object, one plan and job lists over one Short and
\* one local file: none of these decides which events the worker puts)
InitFairWorker ==
    /\ InitWorker
    /\ youtube_service = "service"
    /\ threads[1].schedule_plan = on_ok_manual(6, 9, 0, 0)
    /\ \A k \in 1..Len(threads[1].upload_jobs) :
           threads[1].upload_jobs[k] \in {ReUploadJob("v1", ShortTitle("v1")),
                                          LocalJob(<<"pc", "a.mp4">>, BaseName(<<"pc", "a.mp4">>))}

FairWorker ==
    /\ InitFairWorker /\ [][NextWorker]_vars
    /\ WF_vars(process_queue)
    /\ \A w \in Slots : WF_vars(worker_upload_videos(w))

\* Two workers at once, as FETCH SHORTS followed by a click on UPLOAD FROM PC
\* or on SCHEDULE RE-UPLOADS leaves the program: a fetch thread and an upload
\* thread with one job, both about to run their first statement, the list
\* cleared, an earlier fetch having stored the service object and the Shorts.
InitQueue ==
    /\ task_queue = <<>>
    /\ buttons = set_controls_state(
                    [fetch_button |-> NORMAL, select_all_button |-> DISABLED,
                     deselect_all_button |-> DISABLED, local_upload_button |-> NORMAL,
                     upload_button |-> DISABLED], DISABLED)
    /\ tree = <<>>
    /\ status_var = <<"Authenticating and fetching videos...">>
    /\ progress_var = <<0, 1>>
    /\ youtube_service = "service"
    /\ files = LocalPaths
    /\ \E shorts \in ShortsLists, job \in Jobs :
        /\ job.type = "re-upload" => \E j \in 1..Len(shorts) : shorts[j] = job.source_id
        /\ shorts_data = shorts
        /\ LET upload_jobs == <<job>> IN
           threads = [w \in Slots |->
               IF w = 1 THEN [NoThread EXCEPT !.kind = "fetch", !.pc = "auth"]
               ELSE IF w = 2
               THEN UploadThread(upload_jobs, on_ok_preset(DefaultPreset, DateTime(6, 9, 0, 30, 0)))
               ELSE NoThread]
    /\ sched = NoDialog
    /\ batches = 2
    /\ enqueued = <<>>
    /\ handled = <<>>
    /\ poll = "scheduled"
    /\ fn_call = NoCall

NextQueue ==
    \/ \E w \in Slots : worker_fetch_shorts(w)
    \/ \E w \in Slots : worker_upload_videos(w)
    \/ \E w \in Slots : thread_exit(w)
    \/ process_queue

\* Both threads run whenever they can, and Tk runs every scheduled poll tick.
FairQueue ==
    /\ InitQueue /\ [][NextQueue]_vars
    /\ WF_vars(process_queue)
    /\ \A w \in Slots : WF_vars(worker_fetch_shorts(w)) /\ WF_vars(worker_upload_videos(w))

\* Two re-upload batches at once.  The controls that SCHEDULE RE-UPLOADS
\* disabled come back with the terminal event of any other batch (UPLOAD FROM
\* PC stays enabled all the time), and the list keeps its rows, so a second
\* SCHEDULE RE-UPLOADS can start while the first batch still runs: two upload
\* threads with one re-upload job each, over the Shorts of the list, both
\* about to run their first statement.
InitTwoBatches ==
    /\ task_queue = <<>>
    /\ buttons = set_controls_state(
                    [fetch_button |-> NORMAL, select_all_button |-> DISABLED,
                     deselect_all_button |-> DISABLED, local_upload_button |-> NORMAL,
                     upload_button |-> DISABLED], DISABLED)
    /\ status_var = <<"All tasks complete. Ready.">>
    /\ progress_var = <<100, 1>>
    /\ youtube_service = "service"
    /\ files = LocalPaths
    /\ \E shorts \in ShortsLists, a, b \in 1..MaxSelect :
        /\ a <= Len(shorts) /\ b <= Len(shorts)
        /\ shorts_data = shorts
        /\ tree = shorts
        /\ threads = [w \in Slots |->
               IF w = 1
               THEN UploadThread(<<ReUploadJob(shorts[a], ShortTitle(shorts[a]))>>,
                                 on_ok_manual(6, 9, 0, 0))
               ELSE IF w = 2
               THEN UploadThread(<<ReUploadJob(shorts[b], ShortTitle(shorts[b]))>>,
                                 on_ok_manual(6, 9, 0, 0))
               ELSE NoThread]
    /\ sched = NoDialog
    /\ batches = 4
    /\ enqueued = <<>>
    /\ handled = <<>>
    /\ poll = "scheduled"
    /\ fn_call = NoCall

SpecTwoBatches == InitTwoBatches /\ [][NextWorker]_vars

\* One call of the worker_upload_videos of src/yotuubeuploader.py, started
\* as InitWorker describes.
InitYotuube ==
    /\ task_queue = <<>>
    /\ buttons = set_controls_state(
                    [fetch_button |-> NORMAL, select_all_button |-> DISABLED,
                     deselect_all_button |-> DISABLED, local_upload_button |-> NORMAL,
                     upload_button |-> DISABLED], DISABLED)
    /\ tree = <<>>
    /\ status_var = <<"Ready">>
    /\ progress_var = <<0, 1>>
    /\ youtube_service \in {"None", "service"}
    /\ shorts_data = <<>>
    /\ files = LocalPaths
    /\ \E upload_jobs \in SeqsUpTo(Jobs, MaxJobs), schedule_plan \in PlanChoices :
        threads = [w \in Slots |->
                      IF w = 1
                      THEN [UploadThread(upload_jobs, schedule_plan) EXCEPT !.kind = "yotuube_upload"]
                      ELSE NoThread]
    /\ sched = NoDialog
    /\ batches = 1
    /\ enqueued = <<>>
    /\ handled = <<>>
    /\ poll = "scheduled"
    /\ fn_call = NoCall

NextYotuube ==
    \/ \E w \in Slots : yotuube_worker_upload_videos(w)
    \/ \E w \in Slots : thread_exit(w)
    \/ process_queue

SpecYotuube == InitYotuube /\ [][NextYotuube]_vars

\* One click on UPLOAD FROM PC in the program after construction: any list
\* of up to MaxFiles files, of one directory or of two (the native file
\* dialog returns full paths), any session of up to MaxEdits steps in the
\* metadata dialog, either plan.
DialogPaths == LocalPaths \cup {<<"other", "a.mp4">>}

DialogSelections == {l \in SeqsUpTo(DialogPaths, MaxFiles) :
                        l # <<>> /\ \A a, b \in 1..Len(l) : l[a] = l[b] => a = b}

InitLocalFlow ==
    /\ InitGui
    /\ sched = NoDialog
    /\ fn_call = NoCall

UploadFromPc ==
    /\ batches = 0
    /\ local_upload_flow(DialogSelections, MaxEdits, PlanChoices)

SpecLocalFlow == InitLocalFlow /\ [][UploadFromPc]_vars

\* One call of a module-level function (or of PresetManager.load) on
\* arbitrary arguments, and the worker's own upload_video call.
TagNames == {"YTUPLOADER", "shorts", "your-custom-tag"}

TagLists == SeqsUpTo(TagNames, MaxTags)

PrivacyStatuses == {"private", "public", "unlisted"}

SlotStrings == {schedule_iso_string(schedule_datetime(plan, SlotIndex(i, i))) :
                   plan \in PlanChoices, i \in 0..(MaxJobs - 1)}

PublishAts == {None} \cup {<<s>> : s \in SlotStrings}

idle == <<task_queue, gui, youtube_service, shorts_data, files, threads, batches,
          enqueued, handled, sched, poll>>

CallUploadVideo ==
    /\ fn_call = NoCall
    /\ \E tags \in TagLists, privacy_status \in PrivacyStatuses, publish_at \in PublishAts,
          answer \in UploadAnswers, mail \in SendOutcomes :
        fn_call' = [fn |-> "upload_video", caller |-> "any", tags |-> tags,
                    privacy_status |-> privacy_status, publish_at |-> publish_at,
                    answer |-> answer, mail |-> mail,
                    result |-> upload_video("service", <<"pc", "a.mp4">>, tags, privacy_status,
                                            publish_at, answer, files, mail)]
    /\ UNCHANGED idle

WorkerCallsUploadVideo ==
    /\ fn_call = NoCall
    /\ \E s \in SlotStrings, answer \in UploadAnswers, mail \in SendOutcomes :
        LET args == worker_upload_args(s)
        IN  fn_call' = [fn |-> "upload_video", caller |-> "worker_upload_videos",
                        tags |-> args.tags, privacy_status |-> args.privacy_status,
                        publish_at |-> args.publish_at, answer |-> answer, mail |-> mail,
                        result |-> upload_video("service", <<"pc", "a.mp4">>, args.tags,
                                                args.privacy_status, args.publish_at,
                                                answer, files, mail)]
    /\ UNCHANGED idle

CallDownloadVideo ==
    /\ fn_call = NoCall
    /\ \E video_id \in VideoIds, made \in BOOLEAN, there \in BOOLEAN,
          a1 \in {"ok", "CalledProcessError", "CalledProcessError_empty_stderr", "error"},
          a2 \in {"ok", "error"}, mail \in SendOutcomes :
        LET fs == IF there THEN files \cup {filepath(video_id)} ELSE files
        IN  fn_call' = [fn |-> "download_video", video_id |-> video_id, a1 |-> a1, a2 |-> a2,
                        made |-> made, fs |-> fs, mail |-> mail,
                        result |-> download_video(video_id, a1, a2, made, fs, mail)]
    /\ UNCHANGED idle

CallLoad ==
    /\ fn_call = NoCall
    /\ \E store \in Stores :
        fn_call' = [fn |-> "load", store |-> store, result |-> load(store)]
    /\ UNCHANGED idle

\* the lists successful_uploads can hold after the loop
Outcomes == SeqsUpTo([title : {"t1", "t2"}, id : RemoteIds], MaxJobs)

CallSendErrorEmail ==
    /\ fn_call = NoCall
    /\ \E subject \in {"Authentication Failure", "Failed to Fetch Shorts",
                        "Video Download Failure", "Video Upload Failure"},
          outcome \in SendOutcomes :
        fn_call' = [fn |-> "send_error_email", subject |-> subject, outcome |-> outcome,
                    result |-> send_error_email(subject, outcome)]
    /\ UNCHANGED idle

CallSendDiscordNotification ==
    /\ fn_call = NoCall
    /\ \E successful_uploads \in Outcomes \ {<<>>}, outcome \in SendOutcomes :
        LET message == message_lines(successful_uploads)
        IN  fn_call' = [fn |-> "send_discord_notification", message |-> message,
                        outcome |-> outcome,
                        result |-> send_discord_notification(message, outcome)]
    /\ UNCHANGED idle

WorkerLeavesLoop ==
    /\ fn_call = NoCall
    /\ \E successful_uploads \in Outcomes, outcome \in SendOutcomes :
        fn_call' = [fn |-> "after_loop", successful_uploads |-> successful_uploads,
                    outcome |-> outcome,
                    result |-> after_loop(successful_uploads, outcome)]
    /\ UNCHANGED idle

NextCalls ==
    \/ CallUploadVideo
    \/ WorkerCallsUploadVideo
    \/ CallDownloadVideo
    \/ CallLoad
    \/ CallSendErrorEmail
    \/ CallSendDiscordNotification
    \/ WorkerLeavesLoop

SpecCalls == Init /\ [][NextCalls]_vars

\* SchedulingDialog: the dialog is open at clock reading `now`; OK on either
\* tab sets the result; the worker then computes the slot of job 0, 1, ...
InitSched ==
    /\ InitGui
    /\ \E now \in Nows : sched = [stage |-> "open", now |-> now]
    /\ fn_call = NoCall

frozen == <<task_queue, gui, youtube_service, shorts_data, files, threads, batches,
           enqueued, handled, fn_call, poll>>

OnOkManual ==
    /\ sched.stage = "open"
    /\ \E start_date \in 0..MaxDay, hour \in Hours, minute \in Minutes, interval_days \in Intervals :
        sched' = [stage |-> "result", now |-> sched.now, tab |-> 0,
                  result |-> on_ok_manual(start_date, hour, minute, interval_days),
                  slots |-> <<>>]
    /\ UNCHANGED frozen

OnOkPreset ==
    /\ sched.stage = "open"
    /\ \E preset \in Presets :
        sched' = [stage |-> "result", now |-> sched.now, tab |-> 1, preset |-> preset,
                  result |-> on_ok_preset(preset, sched.now), slots |-> <<>>]
    /\ UNCHANGED frozen

\* the slot of the next job index, as worker_upload_videos computes it
ComputeSlot ==
    /\ sched.stage = "result"
    /\ Len(sched.slots) < MaxSlots
    /\ sched' = [sched EXCEPT !.slots = Append(@, schedule_datetime(sched.result, Len(sched.slots)))]
    /\ UNCHANGED frozen

NextSched == OnOkManual \/ OnOkPreset \/ ComputeSlot

SpecSched == InitSched /\ [][NextSched]_vars

\* ================================================================ properties
UploadThreads == {w \in Slots : threads[w].kind = "upload"}

AllIndices(t) == [k \in 1..Len(t.upload_jobs) |-> k - 1]

\* C1: when worker_upload_videos has left its loop, every index of the batch
\* was attempted, in order, whatever the earlier jobs did; no job ends the
\* thread.
Thm_C1_every_job_attempted ==
    \A w \in UploadThreads :
        /\ threads[w].pc # "crashed"
        /\ threads[w].pc \in {"summary", "done"} => threads[w].attempted = AllIndices(threads[w])

Wit_C1_later_job_after_failures ==
    \E w \in UploadThreads :
        /\ threads[w].pc = "done"
        /\ Len(threads[w].upload_jobs) = 2
        /\ threads[w].fate[1] = "upload_raised"
        /\ threads[w].remove_failed # {}
        /\ threads[w].attempted = <<0, 1>>

CompleteOnceAndLast ==
    \A w \in UploadThreads :
        /\ threads[w].pc = "done" => threads[w].complete_count = 1
        /\ threads[w].pc # "done" => threads[w].complete_count = 0
        /\ ~threads[w].put_after_complete

\* C2: a finished worker_upload_videos has put UPLOAD_COMPLETE exactly once
\* and nothing after it, an unfinished one has not put it yet; and in every
\* run the poll loop eventually enables the controls again (which, with the
\* controls disabled at the start, only the handling of UPLOAD_COMPLETE does).
Thm_C2_upload_complete ==
    /\ []CompleteOnceAndLast
    /\ <>(buttons.fetch_button = NORMAL /\ buttons.upload_button = NORMAL)

Wit_C2_complete_after_all_failed ==
    /\ threads[1].pc = "done"
    /\ Len(threads[1].upload_jobs) = 2
    /\ threads[1].successful_uploads = <<>>
    /\ threads[1].complete_count = 1
    /\ buttons.upload_button = NORMAL

\* C3 as claimed: after a job's processing has ended, no file this batch
\* downloaded exists.
Orig_C3_no_downloaded_file_left ==
    \A w \in UploadThreads :
        threads[w].pc \in {"loop", "summary", "done"} => threads[w].downloaded \cap files = {}

\* C3 as amended: after a job's processing has ended, a file this batch
\* downloaded exists only if os.remove raised OSError for it.
Thm_C3_removed_unless_remove_fails ==
    \A w \in UploadThreads :
        threads[w].pc \in {"loop", "summary", "done"} =>
            (threads[w].downloaded \cap files) \subseteq threads[w].remove_failed

Wit_C3_removed_after_upload_raised ==
    \E w \in UploadThreads :
        /\ threads[w].pc = "done"
        /\ threads[w].fate = <<"upload_raised", "no_id">>
        /\ Cardinality(threads[w].removed) = 2
        /\ threads[w].downloaded \cap files = {}

\* C4: a batch of local jobs only never calls os.remove, and every local
\* file is still in place.
OnlyLocal(t) == \A k \in 1..Len(t.upload_jobs) : t.upload_jobs[k].type = "local"

Thm_C4_local_files_kept ==
    \A w \in UploadThreads :
        OnlyLocal(threads[w]) =>
            /\ threads[w].removed = {} /\ threads[w].remove_failed = {}
            /\ \A k \in 1..Len(threads[w].upload_jobs) :
                   threads[w].upload_jobs[k].source_path \in files

Wit_C4_local_batch_done ==
    \E w \in UploadThreads :
        /\ threads[w].pc = "done"
        /\ OnlyLocal(threads[w])
        /\ threads[w].fate = <<"uploaded", "upload_raised">>

\* C5: every upload_video call carries the publish time of the submission
\* index of its job: start_datetime + i * interval.
Thm_C5_slot_of_submission_index ==
    \A w \in UploadThreads :
        \A k \in 1..Len(threads[w].calls) :
            LET call == threads[w].calls[k]
                plan == threads[w].schedule_plan
            IN  /\ call.title = threads[w].upload_jobs[call.i + 1].title
                /\ call.publish_at.iso =
                       AddDays(plan.start_datetime, call.i * plan.interval)

Wit_C5_upload_after_skipped_job ==
    \E w \in UploadThreads :
        /\ threads[w].fate = <<"no_source", "uploaded">>
        /\ threads[w].schedule_plan.interval = 7
        /\ threads[w].calls[1].i = 1
        /\ threads[w].calls[1].publish_at.iso.day = threads[w].schedule_plan.start_datetime.day + 7

\* C6: consecutive slots of a plan differ by the plan's interval; with
\* interval 0 every slot is the same instant.
Thm_C6_slots_one_interval_apart ==
    sched.stage = "result" =>
        /\ sched.result.interval >= 0
        /\ \A k \in 1..(Len(sched.slots) - 1) :
               sched.slots[k + 1] = AddDays(sched.slots[k], sched.result.interval)
        /\ sched.result.interval = 0 =>
               \A j, k \in 1..Len(sched.slots) : sched.slots[j] = sched.slots[k]

Wit_C6_three_slots ==
    /\ sched.stage = "result"
    /\ sched.result = on_ok_manual(6, 9, 0, 7)
    /\ sched.slots = <<DateTime(6, 9, 0, 0, 0), DateTime(13, 9, 0, 0, 0), DateTime(20, 9, 0, 0, 0)>>

\* C7: the start computed from a preset is on the preset's weekday, at its
\* hour:minute:00, and not before the clock reading.
FromPreset == sched.stage = "result" /\ sched.tab = 1

Thm_C7_preset_start ==
    FromPreset =>
        LET start == sched.result.start_datetime
            P == sched.preset
        IN  /\ WeekDays[weekday(start) + 1] = P.start_day
            /\ start.hour = P.hour /\ start.minute = P.minute
            /\ start.second = 0 /\ start.microsecond = 0
            /\ DtGE(start, sched.now)

Wit_C7_same_day_time_passed ==
    /\ FromPreset
    /\ WeekDays[weekday(sched.now) + 1] = sched.preset.start_day
    /\ sched.now.hour = 23 /\ sched.preset.hour = 9
    /\ sched.result.start_datetime.day = sched.now.day + 7

\* C8: the start computed from a preset is the earliest instant at or after
\* the clock reading on that weekday and time: today if the time has not
\* passed, 7 days on if it has, else 1 to 6 days on; never over 7 days away.
Thm_C8_earliest_occurrence ==
    FromPreset =>
        LET start == sched.result.start_datetime
            now == sched.now
            P == sched.preset
            today == WeekDays[weekday(now) + 1] = P.start_day
            passed == TimeGT(now, TimeOf(P.hour, P.minute))
            ahead == start.day - now.day
        IN  /\ DtGE(start, now)
            /\ ~DtGE(AddDays(start, -7), now)
            /\ DtGE(AddDays(now, 7), start)
            /\ today /\ ~passed => ahead = 0
            /\ today /\ passed => ahead = 7
            /\ ~today => ahead \in 1..6

Wit_C8_scenario_B ==
    /\ FromPreset
    /\ sched.preset = DefaultPreset
    /\ sched.now = DateTime(6, 10, 0, 0, 0)
    /\ sched.result.start_datetime = DateTime(13, 9, 0, 0, 0)

TerminalTypes == {"FETCH_COMPLETE", "FETCH_FAILED", "UPLOAD_COMPLETE"}

PutsTerminal == \E k \in 1..Len(enqueued) : enqueued[k].type \in TerminalTypes

OneEventPerTick ==
    \/ handled' = handled
    \/ /\ Len(handled') = Len(handled) + 1
       /\ SubSeq(handled', 1, Len(handled)) = handled
       /\ enqueued' = enqueued

Thm_C12_handled_once_in_put_order ==
    /\ [](enqueued = handled \o task_queue)
    /\ [][OneEventPerTick]_vars
    /\ <>(handled = enqueued /\ \A w \in Slots : ~Active(threads[w]))

Wit_C12_events_of_two_workers ==
    /\ \E j, k \in 1..Len(handled) :
           j < k /\ handled[j].type = "UPLOAD_COMPLETE" /\ handled[k].type = "FETCH_COMPLETE"
    /\ \E j, k \in 1..Len(handled) :
           j < k /\ handled[j].type = "STATUS_UPDATE" /\ handled[j].data[1] = "Starting upload"
                 /\ handled[k].type = "STATUS_UPDATE"
                 /\ handled[k].data[1] = "Fetching video list from your channel..."
    /\ handled = enqueued

\* The progress values a worker has put after the initial 0.
ProgressPuts(t) ==
    [k \in 1..(Len(t.progress) - 1) |-> t.progress[k + 1].data]

\* C13 as claimed: between two jobs and after the last one, the worker has put
\* one PROGRESS_UPDATE 100*(i+1)/n for every job i processed so far, skipped
\* jobs included, so that the last value of a batch of n >= 1 jobs is 100.
Orig_C13_progress_after_every_job ==
    \A w \in UploadThreads :
        LET t == threads[w]
            n == Len(t.upload_jobs)
        IN  (n >= 1 /\ t.pc \in {"loop", "summary", "done"}) =>
                /\ ProgressPuts(t) = [k \in 1..t.i |-> <<k * 100, n>>]
                /\ t.pc \in {"summary", "done"} =>
                       ProgressPuts(t)[Len(ProgressPuts(t))] = <<n * 100, n>>

\* The upload_video calls of a batch that returned a remote id, in call order,
\* and the outcome each stands for.
ReturnedId(t) == SelectSeq(t.calls, LAMBDA c : ~c.raised /\ c.ret # None)

ExpectedOutcomes(t) ==
    [k \in 1..Len(ReturnedId(t)) |->
        [title |-> t.upload_jobs[ReturnedId(t)[k].i + 1].title, id |-> ReturnedId(t)[k].ret[1]]]

Uploaded(t) == {k \in 1..Len(t.fate) : t.fate[k] = "uploaded"}

\* C14: successful_uploads holds one entry (title, remote id) for each job
\* whose upload_video call returned an id, in submission order, and nothing
\* for a job without source, without id or whose processing raised.
Thm_C14_outcomes_are_returned_ids ==
    \A w \in UploadThreads :
        LET t == threads[w]
        IN  /\ t.successful_uploads = ExpectedOutcomes(t)
            /\ \A j, k \in 1..Len(ReturnedId(t)) :
                   j < k => ReturnedId(t)[j].i < ReturnedId(t)[k].i
            /\ t.pc \in {"loop", "summary", "done"} =>
                   Len(t.successful_uploads) = Cardinality(Uploaded(t))

Wit_C14_scenario_C ==
    \E w \in UploadThreads :
        LET t == threads[w]
        IN  /\ t.pc = "done"
            /\ Len(t.upload_jobs) = 2
            /\ \A k \in 1..2 : t.upload_jobs[k].type = "re-upload"
            /\ t.fate = <<"no_source", "uploaded">>
            /\ Len(t.successful_uploads) = 1
            /\ t.successful_uploads[1].title = t.upload_jobs[2].title
            /\ t.complete_count = 1

\* C15: send_discord_notification is called only after the loop and before
\* UPLOAD_COMPLETE is put, once if some upload returned an id and not at all
\* otherwise, with one line (title, watch URL of the remote id) per outcome.
Thm_C15_one_summary_if_any_success ==
    \A w \in UploadThreads :
        LET t == threads[w]
        IN  /\ t.pc # "done" => t.notified = <<>>
            /\ t.pc = "done" =>
                   Len(t.notified) = IF Cardinality(Uploaded(t)) > 0 THEN 1 ELSE 0
            /\ \A n \in 1..Len(t.notified) :
                   /\ t.notified[n].jobs_done = Len(t.upload_jobs)
                   /\ t.notified[n].complete_put = 0
                   /\ Len(t.notified[n].lines) = Cardinality(Uploaded(t))
                   /\ \A k \in 1..Len(t.notified[n].lines) :
                          t.notified[n].lines[k] =
                              [title |-> ExpectedOutcomes(t)[k].title,
                               url |-> <<"https://www.youtube.com/watch?v=",
                                         ExpectedOutcomes(t)[k].id>>]

Wit_C15_summary_of_two_uploads ==
    \E w \in UploadThreads :
        LET t == threads[w]
        IN  /\ t.pc = "done"
            /\ t.fate = <<"uploaded", "uploaded">>
            /\ Len(t.notified) = 1
            /\ t.notified[1].lines[2].url = <<"https://www.youtube.com/watch?v=", "r2">>
            /\ t.complete_count = 1

\* C16 as claimed: whatever tag list upload_video is given, the list in the
\* request body holds "YTUPLOADER" exactly once and no tag twice.
Orig_C16_provenance_tag_once_no_duplicates ==
    fn_call.fn = "upload_video" =>
        LET sent == fn_call.result.body.tags
        IN  /\ Cardinality({k \in 1..Len(sent) : sent[k] = "YTUPLOADER"}) = 1
            /\ \A j, k \in 1..Len(sent) : sent[j] = sent[k] => j = k

\* C17: an upload_video call with a publish_at builds a request whose status
\* is 'private' and whose publishAt is that value, whatever privacy_status
\* was passed; the call of worker_upload_videos always has a publish_at.
Thm_C17_scheduled_upload_is_private ==
    fn_call.fn = "upload_video" =>
        /\ fn_call.publish_at # None =>
               /\ fn_call.result.body.status.privacyStatus = "private"
               /\ fn_call.result.body.status.publishAt = fn_call.publish_at
        /\ fn_call.caller = "worker_upload_videos" =>
               /\ fn_call.publish_at # None
               /\ fn_call.result.body.status.privacyStatus = "private"

Wit_C17_public_asked_private_sent ==
    /\ fn_call.fn = "upload_video"
    /\ fn_call.privacy_status = "public"
    /\ fn_call.publish_at # None
    /\ fn_call.result.ret = <<"r1">>
    /\ fn_call.result.body.status.privacyStatus = "private"

\* C18 as claimed: download_video does not raise; the fallback runs whenever
\* the first attempt did not succeed; a path is returned only if the file is
\* there, and None when both attempts failed.
Orig_C18_download_never_raises ==
    fn_call.fn = "download_video" =>
        LET r == fn_call.result
        IN  /\ ~r.raised
            /\ r.ran[1] = "4K"
            /\ fn_call.a1 # "ok" => r.ran = <<"4K", "safe">>
            /\ r.ret # None => r.ret \in r.files
            /\ (fn_call.a1 # "ok" /\ fn_call.a2 # "ok") => r.ret = None

\* C19 as claimed: with the store absent or corrupt (undecodable, no JSON, or
\* JSON that is no name-keyed mapping of presets), load returns the mapping
\* holding only the built-in preset.
CorruptStore(store) ==
    \/ store.file \in {"undecodable", "not_json"}
    \/ store.file = "json" /\ store.value.shape # "mapping"

Orig_C19_default_for_absent_or_corrupt ==
    (fn_call.fn = "load" /\ (fn_call.store.file = "absent" \/ CorruptStore(fn_call.store))) =>
        /\ ~fn_call.result.raised
        /\ fn_call.result.presets = DefaultPresets

\* C20 as claimed: every publish time computed from the dialog's result is
\* later than the clock reading at which the dialog was confirmed (the upload
\* is issued no earlier than that).
Orig_C20_publish_time_in_future ==
    sched.stage = "result" =>
        \A k \in 1..Len(sched.slots) :
            \/ sched.slots[k].day > sched.now.day
            \/ sched.slots[k].day = sched.now.day /\ TimeGT(sched.slots[k], sched.now)

\* the indices of `attempted` whose job is a re-upload, in order
ReUploadsAttempted(t) ==
    SelectSeq(t.attempted, LAMBDA k : t.upload_jobs[k + 1].type = "re-upload")

\* C21: in one batch the jobs are attempted once each in submission order;
\* download_video is called once for every re-upload job attempted and for no
\* local job; upload_video is called at most once per job, in job order, with
\* the source the job obtained (the downloaded file, or source_path), and
\* never for a job whose download gave no source or raised.
Thm_C21_one_attempt_per_job_in_order ==
    \A w \in UploadThreads :
        LET t == threads[w]
        IN  /\ \A k \in 1..Len(t.attempted) : t.attempted[k] = k - 1
            /\ t.download_calls = ReUploadsAttempted(t)
            /\ \A k \in 1..Len(t.calls) :
                   LET c == t.calls[k]
                       job == t.upload_jobs[c.i + 1]
                   IN  /\ c.i + 1 <= Len(t.attempted)
                       /\ \A j \in 1..(k - 1) : t.calls[j].i < c.i
                       /\ c.file_path # None
                       /\ c.file_path = IF job.type = "re-upload" THEN filepath(job.source_id)
                                        ELSE job.source_path
                       /\ job.type = "re-upload" => c.file_path \in t.downloaded
                       /\ c.i + 1 <= Len(t.fate) =>
                              t.fate[c.i + 1] \notin {"no_source", "download_raised"}

Wit_C21_skipped_download_then_local_upload ==
    \E w \in UploadThreads :
        LET t == threads[w]
        IN  /\ t.pc = "done"
            /\ Len(t.upload_jobs) = 2
            /\ t.upload_jobs[1].type = "re-upload"
            /\ t.upload_jobs[2].type = "local"
            /\ t.fate = <<"no_source", "uploaded">>
            /\ t.download_calls = <<0>>
            /\ Len(t.calls) = 1
            /\ t.calls[1].i = 1

\* C22 as claimed: a download_video call that yields no source (it returned
\* None or raised) and an upload_video call that yields no id (HttpError, or
\* any other exception) have called send_error_email.
Orig_C22_every_job_failure_emailed ==
    /\ fn_call.fn = "download_video" =>
           (fn_call.result.ret = None => fn_call.result.emails >= 1)
    /\ fn_call.fn = "upload_video" =>
           (fn_call.result.ret = None => fn_call.result.emails >= 1)

\* C23: a notification that fails to send changes nothing for the caller.
\* send_error_email and send_discord_notification raise nothing whatever the
\* send does; download_video and upload_video come back with the same result
\* as when the email is sent; and the lines after the loop raise nothing and
\* put UPLOAD_COMPLETE just as when the summary is sent.
Thm_C23_send_failure_changes_nothing ==
    /\ fn_call.fn \in {"send_error_email", "send_discord_notification"} =>
           ~fn_call.result.raised
    /\ fn_call.fn = "download_video" =>
           fn_call.result = download_video(fn_call.video_id, fn_call.a1, fn_call.a2,
                                           fn_call.made, fn_call.fs, "sent")
    /\ fn_call.fn = "upload_video" =>
           fn_call.result = upload_video("service", <<"pc", "a.mp4">>, fn_call.tags,
                                         fn_call.privacy_status, fn_call.publish_at,
                                         fn_call.answer, files, "sent")
    /\ fn_call.fn = "after_loop" =>
           /\ ~fn_call.result.raised
           /\ fn_call.result.events = <<Event("UPLOAD_COMPLETE", None)>>
           /\ fn_call.result = after_loop(fn_call.successful_uploads, "sent")

Wit_C23_summary_failed_complete_put ==
    /\ fn_call.fn = "after_loop"
    /\ fn_call.outcome = "failed"
    /\ Len(fn_call.successful_uploads) = 2
    /\ fn_call.result.notified
    /\ fn_call.result.events = <<Event("UPLOAD_COMPLETE", None)>>

\* C24 as claimed: the attributes the foreground reads are written by the
\* foreground only: self.youtube_service and self.shorts_data change in a
\* poll tick (which handles an event) or in a trigger (which starts a
\* thread), never in a step of a worker thread.
Orig_C24_workers_write_only_the_queue ==
    [][(youtube_service' # youtube_service \/ shorts_data' # shorts_data)
           => (handled' # handled \/ batches' # batches)]_vars

\* C30 as claimed: when the download or the upload of the job at index i is
\* under way, the worker has put a STATUS_UPDATE "Processing video i+1/n:
\* <title>" for that job.
Orig_C30_processing_status_first ==
    \A w \in UploadThreads :
        LET t == threads[w]
        IN  t.pc \in {"download", "upload"} =>
                \E k \in 1..Len(enqueued) :
                    /\ enqueued[k].type = "STATUS_UPDATE"
                    /\ enqueued[k].data[1] = "Processing video"
                    /\ enqueued[k].data = <<"Processing video", t.i + 1, total_videos(t),
                                            CurrentJob(t).title>>

FetchTerminalPuts == {k \in 1..Len(enqueued) : enqueued[k].type \in {"FETCH_COMPLETE", "FETCH_FAILED"}}

\* C26 as claimed: the fetch batch eventually puts its terminal event,
\* FETCH_COMPLETE or FETCH_FAILED, and the poll loop then enables the
\* controls again.
Orig_C26_fetch_ends_with_terminal_event ==
    <>(/\ FetchTerminalPuts # {}
       /\ \E k \in 1..Len(handled) : handled[k].type \in {"FETCH_COMPLETE", "FETCH_FAILED"})

\* the job a thread is working on, from the start of its download to the end
\* of its cleanup
InReUploadJob(w) ==
    /\ threads[w].kind = "upload"
    /\ threads[w].pc \in {"download", "upload", "finally"}
    /\ CurrentJob(threads[w]).type = "re-upload"

Thm_C27_poll_loop_never_stops ==
    /\ [](poll = "scheduled")
    /\ [][task_queue = <<>> => (UNCHANGED gui /\ handled' = handled)]_vars
    /\ []<>(handled = enqueued)

Wit_C27_handled_after_handler_raised ==
    /\ poll = "scheduled"
    /\ handled = enqueued
    /\ \E j, k \in 1..Len(handled) :
           /\ j < k
           /\ handled[j].type = "FETCH_COMPLETE"
           /\ handled[j].data # <<>>
           /\ tree = <<>>
           /\ handled[k].type = "UPLOAD_COMPLETE"

YotuubeThreads == {w \in Slots : threads[w].kind = "yotuube_upload"}

\* C29 as claimed, for the worker_upload_videos of src/yotuubeuploader.py: no
\* job ends the thread; once a job is over no file the batch downloaded is
\* left; and a thread that has ended has attempted every job and has put
\* UPLOAD_COMPLETE once.
Orig_C29_complete_and_cleanup_whatever_happens ==
    \A w \in YotuubeThreads :
        LET t == threads[w]
        IN  /\ t.pc # "crashed"
            /\ t.pc \in {"loop", "done", "crashed"} => t.downloaded \cap files = {}
            /\ t.pc \in {"done", "crashed"} =>
                   /\ t.attempted = AllIndices(t)
                   /\ t.complete_count = 1
====
